---- MODULE Spec2Model ----
(***************************************************************************)
(* Compile-time type predicates and projections of                         *)
(* cpp/include/cuspatial/detail/utility/traits.hpp.                        *)
(*                                                                         *)
(* A C++ type is a non-empty sequence of type constructors, outermost      *)
(* first, ending in a base type:                                           *)
(*   <<"float">>                    float                                  *)
(*   <<"const", "float">>           const float                            *)
(*   <<"ptr", "float">>             float*                                 *)
(*   <<"ptr", "vec_2d", "float">>   vec_2d<float>*                         *)
(*   <<"iter", "vec_2d", "double">> a class iterator (declaring the five   *)
(*                                  iterator member types) whose           *)
(*                                  value_type is vec_2d<double>           *)
(*   <<"S">>                        a class with no members/conversions    *)
(* The empty sequence stands for "no type": the instantiation is           *)
(* ill-formed and the translation unit is rejected.                        *)
(***************************************************************************)
EXTENDS Integers, Sequences, FiniteSets, TLC

VARIABLES T, Ts, called, result, alias

vars == <<T, Ts, called, result, alias>>

\* Longest candidate pack Ts... that is instantiated.
MaxLen == 3

NoType == <<>>

Types ==
  { <<"float">>, <<"double">>, <<"int">>, <<"bool">>,
    <<"const", "float">>, <<"S">>,
    <<"vec_2d", "float">>,
    <<"ptr", "float">>, <<"ptr", "ptr", "float">>,
    <<"ptr", "vec_2d", "float">>,
    <<"ptr", "const", "vec_2d", "double">>,
    <<"iter", "vec_2d", "double">> }

TypeLists == UNION { [1..n -> Types] : n \in 0..MaxLen }

\* ---------------------------------------------------------------------
\* <type_traits> as used by the header
\* ---------------------------------------------------------------------

remove_cv(t) == IF t # NoType /\ Head(t) = "const" THEN Tail(t) ELSE t

std_is_same(A, B) == A = B

std_is_floating_point(t) == remove_cv(t) \in { <<"float">>, <<"double">> }

std_is_integral(t) == remove_cv(t) \in { <<"int">>, <<"bool">> }

std_is_arithmetic(t) == std_is_floating_point(t) \/ std_is_integral(t)

\* std::is_convertible<From, To>: a function returning To can return an
\* expression of type From by implicit conversion.
std_is_convertible(From, To) ==
  LET f == remove_cv(From)
      t == remove_cv(To)
  IN IF std_is_arithmetic(f) /\ std_is_arithmetic(t) THEN TRUE
     ELSE IF Head(f) = "ptr" /\ t = <<"bool">> THEN TRUE
     ELSE IF Head(f) = "ptr" /\ Head(t) = "ptr"
          THEN \/ Tail(t) = Tail(f)
               \/ Tail(t) = <<"const">> \o Tail(f)
     ELSE f = t

conjunction_v_head(bs) == IF bs = <<>> THEN TRUE ELSE Head(bs)

conjunction_v_nonempty(bs) == bs # <<>> /\ \A i \in DOMAIN bs : bs[i]

\* std::conjunction_v<B...>: true for the empty pack, otherwise the first
\* false member, or the last member.
RECURSIVE conjunction_v(_)
conjunction_v(bs) ==
  IF bs = <<>> THEN TRUE
  ELSE IF Len(bs) = 1 THEN bs[1]
  ELSE IF ~Head(bs) THEN FALSE
  ELSE conjunction_v(Tail(bs))

\* ---------------------------------------------------------------------
\* cuspatial::detail predicates
\* ---------------------------------------------------------------------

is_same_convertible(t, ts) ==
  conjunction_v([i \in DOMAIN ts |-> std_is_convertible(ts[i], t)])

is_same(t, ts) ==
  conjunction_v([i \in DOMAIN ts |-> std_is_same(t, ts[i])])

is_convertible_to_reversed(u, ts) ==
  conjunction_v([i \in DOMAIN ts |-> std_is_convertible(u, ts[i])])

is_convertible_to(u, ts) ==
  conjunction_v([i \in DOMAIN ts |-> std_is_convertible(ts[i], u)])

is_floating_point_any(ts) ==
  ts = <<>> \/ \E i \in DOMAIN ts : std_is_floating_point(ts[i])

is_floating_point(ts) ==
  conjunction_v([i \in DOMAIN ts |-> std_is_floating_point(ts[i])])

is_integral_as_documented(ts) ==
  conjunction_v([i \in DOMAIN ts |-> std_is_floating_point(ts[i])])

is_integral(ts) ==
  conjunction_v([i \in DOMAIN ts |-> std_is_integral(ts[i])])

is_same_floating_point_same_only(t, ts) ==
  conjunction_v([i \in DOMAIN ts |-> std_is_same(t, ts[i])])

is_same_floating_point(t, ts) ==
  /\ conjunction_v([i \in DOMAIN ts |-> std_is_same(t, ts[i])])
  /\ conjunction_v([i \in DOMAIN ts |-> std_is_floating_point(ts[i])])

\* ---------------------------------------------------------------------
\* cuspatial::detail projections
\* ---------------------------------------------------------------------

\* X::value_type for a class type X (cv-qualification of X does not hide
\* its members); no type when X is not a class or declares no value_type.
member_value_type(X) ==
  LET x == remove_cv(X)
  IN IF x # NoType /\ Head(x) \in {"vec_2d", "iter"} THEN Tail(x) ELSE NoType

\* std::iterator_traits<It>::value_type: remove_cv of the pointee for an
\* object pointer, It::value_type for a class declaring all five iterator
\* member types, and no member otherwise.
iterator_traits_value_type(It) ==
  IF It = NoType THEN NoType
  ELSE IF Head(It) = "ptr" THEN remove_cv(Tail(It))
  ELSE IF Head(remove_cv(It)) = "iter" THEN Tail(remove_cv(It))
  ELSE NoType

iterator_value_type_any_member(It) ==
  IF It # NoType /\ Head(It) = "ptr" THEN remove_cv(Tail(It))
  ELSE member_value_type(It)

iterator_value_type(It) == iterator_traits_value_type(It)

iterator_vec_base_type_traits_twice(It) ==
  iterator_traits_value_type(iterator_value_type(It))

iterator_vec_base_type(It) == member_value_type(iterator_value_type(It))

\* ---------------------------------------------------------------------
\* Instantiations
\* ---------------------------------------------------------------------

Init ==
  /\ T \in Types
  /\ Ts \in TypeLists
  /\ called = "none"
  /\ result = FALSE
  /\ alias = NoType

Call_is_same ==
  /\ called = "none"
  /\ called' = "is_same"
  /\ result' = is_same(T, Ts)
  /\ UNCHANGED <<T, Ts, alias>>

Call_is_convertible_to ==
  /\ called = "none"
  /\ called' = "is_convertible_to"
  /\ result' = is_convertible_to(T, Ts)
  /\ UNCHANGED <<T, Ts, alias>>

Call_is_floating_point ==
  /\ called = "none"
  /\ called' = "is_floating_point"
  /\ result' = is_floating_point(Ts)
  /\ UNCHANGED <<T, Ts, alias>>

Call_is_integral ==
  /\ called = "none"
  /\ called' = "is_integral"
  /\ result' = is_integral(Ts)
  /\ UNCHANGED <<T, Ts, alias>>

Call_is_same_floating_point ==
  /\ called = "none"
  /\ called' = "is_same_floating_point"
  /\ result' = is_same_floating_point(T, Ts)
  /\ UNCHANGED <<T, Ts, alias>>

Use_iterator_value_type ==
  /\ called = "none"
  /\ called' = "iterator_value_type"
  /\ alias' = iterator_value_type(T)
  /\ UNCHANGED <<T, Ts, result>>

Use_iterator_vec_base_type ==
  /\ called = "none"
  /\ called' = "iterator_vec_base_type"
  /\ alias' = iterator_vec_base_type(T)
  /\ UNCHANGED <<T, Ts, result>>

Next ==
  \/ Call_is_same
  \/ Call_is_convertible_to
  \/ Call_is_floating_point
  \/ Call_is_integral
  \/ Call_is_same_floating_point
  \/ Use_iterator_value_type
  \/ Use_iterator_vec_base_type

Spec == Init /\ [][Next]_vars

\* ---------------------------------------------------------------------
\* Properties
\* ---------------------------------------------------------------------

Predicates ==
  { "is_same", "is_convertible_to", "is_floating_point", "is_integral",
    "is_same_floating_point" }

Evaluate(name, t, ts) ==
  CASE name = "is_same" -> is_same(t, ts)
    [] name = "is_convertible_to" -> is_convertible_to(t, ts)
    [] name = "is_floating_point" -> is_floating_point(ts)
    [] name = "is_integral" -> is_integral(ts)
    [] name = "is_same_floating_point" -> is_same_floating_point(t, ts)

Permute(ts, p) == [i \in DOMAIN ts |-> ts[p[i]]]

Uniform(ts) == \A i, j \in DOMAIN ts : ts[i] = ts[j]

FloatingTypes == { <<"float">>, <<"double">>, <<"const", "float">> }

IntegralTypes == { <<"int">>, <<"bool">> }

\* C1: is_same<T, Ts...>() is true iff every candidate in Ts is exactly T;
\* a candidate that is only convertible to T makes it false, and so does a
\* reference type other than the repeated candidate of a non-empty list.
C1_IsSameExact ==
  called = "is_same" =>
    /\ result = (\A i \in DOMAIN Ts : Ts[i] = T)
    /\ (\E i \in DOMAIN Ts : Ts[i] # T /\ std_is_convertible(Ts[i], T))
         => ~result
    /\ (Ts # <<>> /\ Uniform(Ts) /\ T # Ts[1]) => ~result

C1_Witness ==
  /\ called = "is_same"
  /\ Len(Ts) >= 2
  /\ Ts[1] = T
  /\ Ts[2] # T /\ std_is_convertible(Ts[2], T)
  /\ ~result

\* C2: is_same_floating_point<T, Ts...>() is true iff T itself is a
\* floating-point type and every type in Ts is T, the empty list included.
C2_SameFloatingPointIff ==
  called = "is_same_floating_point" =>
    result = (T \in FloatingTypes /\ \A i \in DOMAIN Ts : Ts[i] = T)

\* C3: is_convertible_to<U, Ts...>() is true iff every candidate in Ts is
\* implicitly convertible to U (candidate -> U); arithmetic candidates with
\* a floating-point U give true, a candidate without a conversion path to U
\* gives false.
C3_ConvertibleToTarget ==
  called = "is_convertible_to" =>
    /\ result = (\A i \in DOMAIN Ts : std_is_convertible(Ts[i], T))
    /\ (T \in FloatingTypes
          /\ \A i \in DOMAIN Ts : Ts[i] \in FloatingTypes \cup IntegralTypes)
         => result
    /\ (T \in FloatingTypes
          /\ \E i \in DOMAIN Ts : Ts[i] \notin FloatingTypes \cup IntegralTypes)
         => ~result

C3_Witness ==
  /\ called = "is_convertible_to"
  /\ T = <<"bool">>
  /\ Len(Ts) >= 2
  /\ Ts[1] = <<"ptr", "float">>
  /\ Ts[2] = <<"double">>
  /\ result

\* C4: is_floating_point<Ts...>() is true iff every type in Ts is a
\* floating-point scalar type; one integral or non-scalar candidate anywhere
\* in the list makes it false.
C4_AllFloatingPoint ==
  called = "is_floating_point" =>
    /\ result = (\A i \in DOMAIN Ts : Ts[i] \in FloatingTypes)
    /\ (\E i \in DOMAIN Ts : Ts[i] \in IntegralTypes) => ~result
    /\ (\E i \in DOMAIN Ts : Ts[i] \notin FloatingTypes \cup IntegralTypes)
         => ~result

C4_Witness ==
  /\ called = "is_floating_point"
  /\ Len(Ts) >= 2
  /\ Ts[1] \in FloatingTypes
  /\ Ts[Len(Ts)] \in IntegralTypes
  /\ ~result

C7_EmptyListVacuouslyTrue ==
  ( /\ Ts = <<>>
    /\ called \in { "is_same", "is_convertible_to", "is_floating_point",
                    "is_integral" } )
    => result

C7_Witness ==
  /\ called = "is_convertible_to"
  /\ T = <<"S">>
  /\ Ts = <<>>
  /\ result

\* C8: each predicate's result depends only on the reference type and the
\* set of candidates: permuting the candidate list, or repeating a candidate
\* already in it, gives the same boolean.
C8_OrderAndDuplicationIrrelevant ==
  called \in Predicates =>
    /\ \A p \in Permutations(DOMAIN Ts) :
         Evaluate(called, T, Permute(Ts, p)) = result
    /\ \A i \in DOMAIN Ts :
         /\ Evaluate(called, T, Append(Ts, Ts[i])) = result
         /\ Evaluate(called, T, <<Ts[i]>> \o Ts) = result

C8_Witness ==
  /\ called = "is_same_floating_point"
  /\ T = <<"double">>
  /\ Len(Ts) >= 2
  /\ Ts[1] = <<"double">>
  /\ Ts[Len(Ts)] = <<"float">>
  /\ ~result

\* C9: for an iterator type It declaring element type E,
\* iterator_value_type<It> is E; when E declares component type C,
\* iterator_vec_base_type<It> is C, the value_type of iterator_value_type<It>.
C9_ProjectionsYieldDeclaredTypes ==
  /\ (called = "iterator_value_type" /\ Head(T) = "iter") => alias = Tail(T)
  /\ (called = "iterator_value_type" /\ Head(T) = "ptr") =>
       alias = remove_cv(Tail(T))
  /\ (called = "iterator_vec_base_type" /\ Head(T) \in {"iter", "ptr"}
        /\ Head(remove_cv(Tail(T))) = "vec_2d") =>
       /\ alias = Tail(remove_cv(Tail(T)))
       /\ alias = member_value_type(iterator_value_type(T))

C9_Witness ==
  /\ called = "iterator_vec_base_type"
  /\ T = <<"ptr", "const", "vec_2d", "double">>
  /\ alias = <<"double">>

\* C10: a projection of a type lacking the required association is
\* rejected: iterator_value_type<X> when X is not an iterator, and
\* iterator_vec_base_type<It> when It is not an iterator or its element type
\* declares no value_type, though iterator_value_type<It> is then a type.
C10_MissingAssociationRejected ==
  /\ (called = "iterator_value_type" /\ Head(T) \notin {"iter", "ptr"}) =>
       alias = NoType
  /\ (called = "iterator_vec_base_type" /\ Head(T) \notin {"iter", "ptr"}) =>
       alias = NoType
  /\ (called = "iterator_vec_base_type" /\ Head(T) \in {"iter", "ptr"}
        /\ Head(remove_cv(Tail(T))) \notin {"vec_2d", "iter"}) =>
       /\ alias = NoType
       /\ iterator_value_type(T) # NoType

C10_Witness ==
  /\ called = "iterator_vec_base_type"
  /\ T = <<"ptr", "float">>
  /\ alias = NoType

====
